---------------------------- MODULE Spec2Model ----------------------------
(***************************************************************************)
(* Model of etl_pipeline.py: one fetch / transform / load cycle against    *)
(* the Hugging Face model list and a PostgreSQL table.                     *)
(*                                                                         *)
(* Time is counted in whole days: the code only compares timestamps and    *)
(* subtracts timedelta(days=30), so any unit that keeps order would do.    *)
(***************************************************************************)
EXTENDS Integers, Sequences, FiniteSets, TLC

VARIABLES
    pc,          \* position of the process in __main__ / load_to_postgres
    runs,        \* number of process invocations so far
    now,         \* wall clock: the value the next clock read returns at least
    status,      \* HTTP status of the response (0: none received)
    models,      \* the list returned by fetch_huggingface_models
    df,          \* the DataFrame returned by transform_models_data (rows in order)
    fill_time,   \* the reading of pd.Timestamp.now() at line 51 (-1: not read)
    conn,        \* the psycopg2 connection: "none", "open" or "closed"
    txn,         \* the table as the open transaction sees it
    store,       \* the committed table
    records,     \* the rows execute_batch has still to send
    failStage,   \* where load_to_postgres raised ("" when it has not)
    store0,      \* the committed table when load_to_postgres was called
    stages,      \* the stages __main__ has entered in this run
    stmts,       \* number of statements this process has sent to the store
    reloaded,    \* load_to_postgres was called a second time with the same df
    firstStore   \* the committed table after the first of the two calls

vars == <<pc, runs, now, status, models, df, fill_time, conn, txn, store,
          records, failStage, store0, stages, stmts, reloaded, firstStore>>

-----------------------------------------------------------------------------
(* Bounds of the model.                                                    *)

MaxRuns == 2      \* process invocations
MaxBatch == 2     \* records in one API response of a run
MaxKeys == 2      \* keys present in one raw record of the transform check
MaxClock == 1     \* last day the clock of a run reaches

-----------------------------------------------------------------------------
(* Python values.  Every value has the same three fields so that values of *)
(* different Python types can be compared.                                 *)

None == [t |-> "none", s |-> "", n |-> 0]
Str(x) == [t |-> "str", s |-> x, n |-> 0]
Num(i) == [t |-> "int", s |-> "", n |-> i]
Bool(b) == [t |-> "bool", s |-> "", n |-> IF b THEN 1 ELSE 0]

\* The text of an ISO-8601 date for day d, with ("Z") or without ("") a UTC
\* designator: the shapes of lastModified that pd.to_datetime can parse.
DateStr(z, d) == [t |-> "datestr", s |-> z, n |-> d]

\* pd.Timestamp for day d, tz-naive (tz = "") or tz-aware (tz = "UTC").
Timestamp(tz, d) == [t |-> "ts", s |-> tz, n |-> d]
NaT == [t |-> "nat", s |-> "", n |-> 0]

\* Python truthiness, as `or` tests it.
Truthy(v) ==
    CASE v.t = "none" -> FALSE
      [] v.t = "int" -> v.n # 0
      [] v.t = "bool" -> v.n # 0
      [] v.t = "str" -> v.s # ""
      [] OTHER -> TRUE

\* dict.get(key, default): the default is used only when the key is absent.
get(model, key, default) == IF key \in DOMAIN model THEN model[key] ELSE default

\* Variant: the value as it is, None included.
OrZeroNoNull(v) == v
\* `x or 0`
OrZero(v) == IF Truthy(v) THEN v ELSE Num(0)

\* pd.to_datetime(v, errors='coerce') on the values a record can hold:
\* a date text parses (tz-aware when it carries a UTC designator), NaT stays
\* NaT, None comes back as None and becomes a missing value of the column,
\* any other text is coerced to NaT.
to_datetime(v) ==
    CASE v.t = "datestr" -> Timestamp(IF v.s = "Z" THEN "UTC" ELSE "", v.n)
      [] v.t = "ts" -> v
      [] OTHER -> NaT

\* Variant: missing values are left missing.
fillna_keep(v, value) == v
\* Series.fillna(value) on one cell.
fillna(v, value) == IF v.t = "nat" THEN value ELSE v

THIRTY_DAYS == 30

\* Variant: the boundary excluded.
is_recent_strict(x, fetch_time) == x.n > fetch_time - THIRTY_DAYS
\* lambda x: bool(x >= fetch_time - timedelta(days=30)), x tz-naive
is_recent(x, fetch_time) == x.n >= fetch_time - THIRTY_DAYS

\* The dict built for one model by the list comprehension of lines 36-48.
RawRow(model) ==
    [ modelname     |-> get(model, "name", Str("")),
      modelId       |-> get(model, "modelId", Str("")),
      author        |-> get(model, "author", Str("unknown")),
      downloads     |-> OrZero(get(model, "downloads", None)),
      likes         |-> OrZero(get(model, "likes", None)),
      pipeline_tag  |-> get(model, "pipeline_tag", Str("")),
      library_name  |-> get(model, "library_name", Str("")),
      model_type    |-> get(model, "model_type", Str("")),
      license       |-> get(model, "license", Str("unknown")),
      private       |-> get(model, "private", Bool(FALSE)),
      last_modified |-> to_datetime(get(model, "lastModified", NaT)) ]

\* One row of the returned DataFrame: the dict of lines 36-48, last_modified
\* filled with the reading t_fill of line 51, fetch_time the reading t_fetch
\* of line 54, is_recent by line 58.
DfRow(model, t_fill, t_fetch) ==
    LET r == RawRow(model)
        lm == fillna(r.last_modified, Timestamp("", t_fill))
    IN [ modelname     |-> r.modelname,
         modelId       |-> r.modelId,
         author        |-> r.author,
         downloads     |-> r.downloads,
         likes         |-> r.likes,
         pipeline_tag  |-> r.pipeline_tag,
         library_name  |-> r.library_name,
         model_type    |-> r.model_type,
         license       |-> r.license,
         private       |-> r.private,
         last_modified |-> lm,
         fetch_time    |-> Timestamp("", t_fetch),
         is_recent     |-> Bool(is_recent(lm, t_fetch)) ]

\* transform_models_data raises instead of returning:
\*  - an empty list gives a DataFrame without columns, and df["last_modified"]
\*    (line 51) raises KeyError;
\*  - a tz-aware last_modified compared with the tz-naive fetch_time
\*    (line 58) raises TypeError.
TransformRaises(ms) ==
    \/ Len(ms) = 0
    \/ \E i \in 1..Len(ms) : RawRow(ms[i]).last_modified.s = "UTC"

transform_models_data(ms, t_fill, t_fetch) ==
    [i \in 1..Len(ms) |-> DfRow(ms[i], t_fill, t_fetch)]

-----------------------------------------------------------------------------
(* Raw records: Python dicts, modelled as functions whose domain is the    *)
(* set of keys present.                                                    *)

Keys == {"name", "modelId", "author", "downloads", "likes", "pipeline_tag",
         "library_name", "model_type", "license", "private", "lastModified"}

\* Day of the first clock read in the transform check, and dates around the
\* thirty-day boundary of the fetch times that can follow it.
T0 == 40

ClockSteps == {0, 1, THIRTY_DAYS, THIRTY_DAYS + 1}

DateDays == {T0 - 31, T0 - 30, T0 - 29, T0, T0 + 1, T0 + 2, T0 + 32}

\* Values a key can carry in the transform check.
Dom(k) ==
    CASE k = "name" -> {Str("bert"), None}
      [] k = "modelId" -> {Str("a/b"), None}
      [] k = "author" -> {Str("alice"), Str(""), None}
      [] k \in {"downloads", "likes"} -> {Num(5), Num(0), Num(-1), None}
      [] k \in {"pipeline_tag", "library_name", "model_type"} ->
            {Str("text-generation"), Str(""), None}
      [] k = "license" -> {Str("mit"), Str(""), None}
      [] k = "private" -> {Bool(TRUE), Bool(FALSE)}
      [] k = "lastModified" ->
            {DateStr("", d) : d \in DateDays} \cup
            {DateStr("Z", T0), Str("not a date"), None}

\* Values a key can carry in a response of a pipeline run.
ApiDom(k) ==
    CASE k = "author" -> {Str("alice")}
      [] k = "likes" -> {Num(9)}
      [] OTHER -> {}

ValuesOf(src, k) == IF src = "api" THEN ApiDom(k) ELSE Dom(k)

RECURSIVE DictsOver(_, _)
\* All dicts with exactly the keys S, each key k with a value of ValuesOf(src, k).
DictsOver(S, src) ==
    IF S = {} THEN {<<>>}
    ELSE LET k == CHOOSE x \in S : TRUE
         IN { (k :> v) @@ m : v \in ValuesOf(src, k), m \in DictsOver(S \ {k}, src) }

RawRecords(src, maxKeys) ==
    UNION { DictsOver(S, src) : S \in {S \in SUBSET Keys : Cardinality(S) <= maxKeys} }

RawAll == RawRecords("any", MaxKeys)

\* Records of a response of a pipeline run: model a/b with or without an
\* author and a like count, and model c/d with nothing else.
ApiRecords ==
    { ("modelId" :> Str("a/b")) @@ m :
        m \in UNION { DictsOver(S, "api") : S \in SUBSET {"author", "likes"} } }
    \cup { "modelId" :> Str("c/d") }

RECURSIVE SeqsUpTo(_, _)
SeqsUpTo(S, n) ==
    IF n = 0 THEN {<<>>}
    ELSE LET shorter == SeqsUpTo(S, n - 1)
         IN shorter \cup { Append(q, x) : q \in {q \in shorter : Len(q) = n - 1}, x \in S }

ApiBodies == SeqsUpTo(ApiRecords, MaxBatch)

-----------------------------------------------------------------------------
(* The store: one PostgreSQL table, with the state the open transaction    *)
(* sees kept apart from the committed state.                               *)

NoTable == [exists |-> FALSE, rows |-> {}]

\* The list of lines 88-92: the twelve columns sent to the store.
Columns(r) ==
    [ modelId       |-> r.modelId,
      author        |-> r.author,
      downloads     |-> r.downloads,
      likes         |-> r.likes,
      pipeline_tag  |-> r.pipeline_tag,
      library_name  |-> r.library_name,
      model_type    |-> r.model_type,
      license       |-> r.license,
      private       |-> r.private,
      last_modified |-> r.last_modified,
      is_recent     |-> r.is_recent,
      fetch_time    |-> r.fetch_time ]

\* ON CONFLICT (modelId) DO UPDATE SET ...: the columns of lines 102-111.
DoUpdate(old, excluded) ==
    [ old EXCEPT !.downloads     = excluded.downloads,
                 !.likes         = excluded.likes,
                 !.pipeline_tag  = excluded.pipeline_tag,
                 !.library_name  = excluded.library_name,
                 !.model_type    = excluded.model_type,
                 !.license       = excluded.license,
                 !.private       = excluded.private,
                 !.last_modified = excluded.last_modified,
                 !.is_recent     = excluded.is_recent,
                 !.fetch_time    = excluded.fetch_time ]

\* Variant: a plain INSERT into a table without a key.
InsertOnly(rows, r) == rows \cup {r}
\* One INSERT ... ON CONFLICT statement of lines 95-112 on the rows of the table.
Upsert(rows, r) ==
    IF \E s \in rows : s.modelId = r.modelId
    THEN { IF s.modelId = r.modelId THEN DoUpdate(s, r) ELSE s : s \in rows }
    ELSE rows \cup {r}

\* Variant: a connection with autocommit on.
VisibleAutocommit(committed, pending) == pending
\* What other sessions see of the statements a connection has executed and
\* not committed: psycopg2 connections open with autocommit off (line 66).
Visible(committed, pending) == committed

\* Variant: the status is not checked.
raise_never(st) == FALSE
\* response.raise_for_status(): raises for 4xx and 5xx.
raise_for_status(st) == st >= 400 /\ st < 600

Statuses == {200, 404, 500}

-----------------------------------------------------------------------------
(* The process.                                                            *)

Init ==
    /\ pc = "fetch"
    /\ runs = 1
    /\ now = 0
    /\ status = 0
    /\ models = <<>>
    /\ df = <<>>
    /\ fill_time = -1
    /\ conn = "none"
    /\ txn = NoTable
    /\ store = NoTable
    /\ records = <<>>
    /\ failStage = ""
    /\ store0 = NoTable
    /\ stages = <<>>
    /\ stmts = 0
    /\ reloaded = FALSE
    /\ firstStore = NoTable

\* requests.get returned a response (lines 28-30).
Fetch ==
    /\ pc = "fetch"
    /\ \E st \in Statuses, body \in ApiBodies :
          /\ status' = st
          /\ IF raise_for_status(st)
             THEN pc' = "main_except" /\ models' = <<>>
             ELSE pc' = "transform" /\ models' = body
    /\ stages' = Append(stages, "fetch")
    /\ UNCHANGED <<runs, now, df, fill_time, conn, txn, store, records,
                   failStage, store0, stmts, reloaded, firstStore>>

\* requests.get raised: no response was received (line 28).
FetchNoResponse ==
    /\ pc = "fetch"
    /\ pc' = "main_except"
    /\ stages' = Append(stages, "fetch")
    /\ UNCHANGED <<runs, now, status, models, df, fill_time, conn, txn, store,
                   records, failStage, store0, stmts, reloaded, firstStore>>

\* transform_models_data returns (lines 33-60); the clock moves on by one of
\* `steps` between the read of line 51 and the read of line 54.
Transform(steps) ==
    /\ pc = "transform"
    /\ ~TransformRaises(models)
    /\ \E d \in steps :
          /\ fill_time' = now
          /\ now' = now + d
          /\ df' = transform_models_data(models, now, now + d)
    /\ pc' = "load"
    /\ stages' = Append(stages, "transform")
    /\ UNCHANGED <<runs, status, models, conn, txn, store, records, failStage,
                   store0, stmts, reloaded, firstStore>>

\* transform_models_data raises (lines 51, 58).
TransformFails ==
    /\ pc = "transform"
    /\ TransformRaises(models)
    /\ pc' = "main_except"
    /\ stages' = Append(stages, "transform")
    /\ UNCHANGED <<runs, now, status, models, df, fill_time, conn, txn, store,
                   records, failStage, store0, stmts, reloaded, firstStore>>

\* load_to_postgres raises at `stage`: the except clause of lines 120-122 is
\* entered with the connection as it is.
Raise(stage) ==
    /\ failStage' = stage
    /\ pc' = "load_except"

\* load_to_postgres is called; psycopg2.connect (lines 63-67).
Connect ==
    /\ pc = "load"
    /\ stages' = IF reloaded THEN stages ELSE Append(stages, "load")
    /\ store0' = store
    /\ \/ /\ conn' = "open"
          /\ txn' = store
          /\ pc' = "schema"
          /\ UNCHANGED failStage
       \/ /\ Raise("connect")
          /\ UNCHANGED <<conn, txn>>
    /\ UNCHANGED <<runs, now, status, models, df, fill_time, store, records,
                   stmts, reloaded, firstStore>>

\* CREATE TABLE IF NOT EXISTS, then the list of rows (lines 70-92).
SchemaEnsure ==
    /\ pc = "schema"
    /\ stmts' = stmts + 1
    /\ \/ /\ txn' = [txn EXCEPT !.exists = TRUE]
          /\ records' = [i \in 1..Len(df) |-> Columns(df[i])]
          /\ pc' = "write"
          /\ UNCHANGED failStage
          /\ store' = Visible(store, [txn EXCEPT !.exists = TRUE])
       \/ /\ Raise("schema")
          /\ UNCHANGED <<txn, records, store>>
    /\ UNCHANGED <<runs, now, status, models, df, fill_time, conn, store0,
                   stages, reloaded, firstStore>>

\* execute_batch sends the next row (line 114).
WriteRow ==
    /\ pc = "write"
    /\ records # <<>>
    /\ stmts' = stmts + 1
    /\ \/ /\ txn' = [txn EXCEPT !.rows = Upsert(txn.rows, Head(records))]
          /\ records' = Tail(records)
          /\ store' = Visible(store, [txn EXCEPT !.rows = Upsert(txn.rows, Head(records))])
          /\ UNCHANGED <<pc, failStage>>
       \/ /\ Raise("write")
          /\ UNCHANGED <<txn, records, store>>
    /\ UNCHANGED <<runs, now, status, models, df, fill_time, conn, store0,
                   stages, reloaded, firstStore>>

\* conn.commit() (line 115).  When it raises, the server may or may not have
\* committed.
Commit ==
    /\ pc = "write"
    /\ records = <<>>
    /\ \/ /\ store' = txn
          /\ pc' = "close"
          /\ UNCHANGED failStage
       \/ /\ Raise("commit")
          /\ store' \in {store, txn}
    /\ UNCHANGED <<runs, now, status, models, df, fill_time, conn, txn, records,
                   store0, stages, stmts, reloaded, firstStore>>

\* cursor.close(), conn.close(), and load_to_postgres returns (lines 116-118).
Close ==
    /\ pc = "close"
    /\ conn' = "closed"
    /\ pc' = "done"
    /\ firstStore' = IF reloaded THEN firstStore ELSE store
    /\ UNCHANGED <<runs, now, status, models, df, fill_time, txn, store, records,
                   failStage, store0, stages, stmts, reloaded>>

\* The except clause of load_to_postgres: log and re-raise (lines 120-122).
LoadExcept ==
    /\ pc = "load_except"
    /\ pc' = "main_except"
    /\ UNCHANGED <<runs, now, status, models, df, fill_time, conn, txn, store,
                   records, failStage, store0, stages, stmts, reloaded, firstStore>>

\* load_to_postgres is called once more with the DataFrame it has just loaded.
LoadAgain ==
    /\ pc = "done"
    /\ ~reloaded
    /\ reloaded' = TRUE
    /\ conn' = "none"
    /\ pc' = "load"
    /\ UNCHANGED <<runs, now, status, models, df, fill_time, txn, store, records,
                   failStage, store0, stages, stmts, firstStore>>

\* The process ends (lines 130-132): its locals are gone, a connection left
\* open is dropped and the server discards its uncommitted transaction.
ProcessExit ==
    /\ pc \in {"done", "main_except"}
    /\ pc' = "exit"
    /\ conn' = IF conn = "open" THEN "closed" ELSE conn
    /\ txn' = store
    /\ models' = <<>>
    /\ df' = <<>>
    /\ records' = <<>>
    /\ UNCHANGED <<runs, now, status, fill_time, store, failStage, store0, stages,
                   stmts, reloaded, firstStore>>

\* The pipeline is run again, at a later time.
Invoke ==
    /\ pc = "exit"
    /\ runs < MaxRuns
    /\ runs' = runs + 1
    /\ \E d \in {0, 1} : now + d <= MaxClock /\ now' = now + d
    /\ pc' = "fetch"
    /\ status' = 0
    /\ fill_time' = -1
    /\ conn' = "none"
    /\ failStage' = ""
    /\ store0' = store
    /\ stages' = <<>>
    /\ stmts' = 0
    /\ reloaded' = FALSE
    /\ firstStore' = NoTable
    /\ UNCHANGED <<models, df, txn, store, records>>

Next ==
    \/ Fetch
    \/ FetchNoResponse
    \/ Transform({d \in ClockSteps : now + d <= MaxClock})
    \/ TransformFails
    \/ Connect
    \/ SchemaEnsure
    \/ WriteRow
    \/ Commit
    \/ Close
    \/ LoadExcept
    \/ LoadAgain
    \/ ProcessExit
    \/ Invoke

Spec == Init /\ [][Next]_vars

-----------------------------------------------------------------------------
(* The transform alone, on one raw record drawn from RawAll or on a        *)
(* response of a run, starting at day T0.                                  *)

InitTransform ==
    /\ pc = "transform"
    /\ runs = 1
    /\ now = T0
    /\ status = 200
    /\ models \in { <<m>> : m \in RawAll } \cup ApiBodies
    /\ df = <<>>
    /\ fill_time = -1
    /\ conn = "none"
    /\ txn = NoTable
    /\ store = NoTable
    /\ records = <<>>
    /\ failStage = ""
    /\ store0 = NoTable
    /\ stages = <<"fetch">>
    /\ stmts = 0
    /\ reloaded = FALSE
    /\ firstStore = NoTable

NextTransform ==
    \/ Transform(ClockSteps)
    \/ TransformFails

SpecTransform == InitTransform /\ [][NextTransform]_vars

-----------------------------------------------------------------------------
(* Properties.                                                             *)

\* The last position of df that carries the same modelId as position i.
LastOf(i) == CHOOSE j \in i..Len(df) :
                /\ df[j].modelId = df[i].modelId
                /\ \A k \in (j + 1)..Len(df) : df[k].modelId # df[i].modelId

RECURSIVE ApplyBatch(_, _)
\* The table after every row of recs has been written to it, in order.
ApplyBatch(table, recs) ==
    IF recs = <<>> THEN table
    ELSE ApplyBatch([exists |-> TRUE, rows |-> Upsert(table.rows, Columns(Head(recs)))],
                    Tail(recs))

\* lastModified of the raw record m is absent, null or not a date.
NoDate(m) == "lastModified" \notin DOMAIN m \/ m["lastModified"].t \in {"none", "str"}

StringDefault(k) == IF k \in {"author", "license"} THEN Str("unknown") ELSE Str("")

(* C1: when a row is written whose modelId already has a stored row, the   *)
(* stored row afterwards equals the incoming record in every column.       *)
C1_UpsertOverwritesEveryColumn ==
    [][ ( /\ pc = "write" /\ records # <<>>
          /\ records' = Tail(records)
          /\ \E s \in txn.rows : s.modelId = Head(records).modelId )
        => \A s \in txn'.rows :
              s.modelId = Head(records).modelId => s = Head(records) ]_vars

(* C2: a call of load_to_postgres that fails at connect, at schema-ensure  *)
(* or at a row write leaves the committed table as it was when the call    *)
(* began; nothing is visible before the commit; and what a call commits is *)
(* the table with every row of the batch written.                          *)
C2_AtomicBatch ==
    /\ failStage \in {"connect", "schema", "write"} => store = store0
    /\ pc \in {"schema", "write"} => store = store0
    /\ (pc \in {"close", "done", "load_except", "main_except"} /\ store # store0)
          => store = ApplyBatch(store0, df)

\* A row write failed after an earlier row of the batch had been written.
C2_Witness ==
    /\ pc = "main_except"
    /\ failStage = "write"
    /\ txn.rows # store.rows
    /\ store = store0

(* C3: no call of load_to_postgres returns or raises with its connection   *)
(* still open.                                                             *)
C3_ConnectionClosedOnEveryExit ==
    (pc \in {"done", "main_except"} /\ failStage # "connect" /\ conn # "none")
        => conn = "closed"

(* C4: after load_to_postgres has run twice with the same rows, the table  *)
(* equals the table after the first run and holds exactly one row for each *)
(* modelId of the rows, equal in every column to the last such row.        *)
C4_UpsertIdempotent ==
    (pc = "done" /\ reloaded) =>
        /\ store = firstStore
        /\ \A i \in 1..Len(df) :
              /\ Cardinality({s \in store.rows : s.modelId = df[i].modelId}) = 1
              /\ \A s \in store.rows :
                    s.modelId = df[i].modelId => s = Columns(df[LastOf(i)])

(* C5: the stages of a run are entered in the order fetch, transform,      *)
(* load; after a 4xx or 5xx response no later stage is entered, no         *)
(* connection is opened, no statement is sent and the committed table is   *)
(* what it was when the run began.                                         *)
C5_FailFastOrder ==
    /\ stages \in { SubSeq(<<"fetch", "transform", "load">>, 1, n) : n \in 0..3 }
    /\ status >= 400 =>
          /\ stages = <<"fetch">>
          /\ conn = "none"
          /\ stmts = 0
          /\ store = store0

\* A later run got HTTP 500 while the table held rows, and has ended.
C5_Witness ==
    /\ status = 500
    /\ pc = "exit"
    /\ runs > 1
    /\ store.rows # {}

C7_RecentInclusive ==
    \A i \in 1..Len(df) :
        LET lm == df[i].last_modified.n
            ft == df[i].fetch_time.n
        IN /\ df[i].is_recent = Bool(lm >= ft - THIRTY_DAYS)
           /\ lm = ft - 30 => df[i].is_recent = Bool(TRUE)
           /\ lm = ft - 31 => df[i].is_recent = Bool(FALSE)

\* A record dated exactly thirty days before fetch_time was transformed.
C7_Witness ==
    \E i \in 1..Len(df) :
        /\ "lastModified" \in DOMAIN models[i]
        /\ models[i]["lastModified"].t = "datestr"
        /\ df[i].last_modified.n = df[i].fetch_time.n - 30
        /\ df[i].is_recent = Bool(TRUE)

(* C8: each string field of a row is its default when the key is absent    *)
(* and when its value is null, and the supplied value otherwise.           *)
C8_StringDefaults ==
    \A i \in 1..Len(df) :
        \A k \in {"author", "license", "pipeline_tag", "library_name", "model_type"} :
            df[i][k] = IF k \notin DOMAIN models[i] \/ models[i][k] = None
                       THEN StringDefault(k)
                       ELSE models[i][k]

(* C9: downloads and likes of a row are 0 when the key is absent or null   *)
(* and the supplied number otherwise; private is false when absent.        *)
C9_NumericDefaults ==
    \A i \in 1..Len(df) :
        /\ \A k \in {"downloads", "likes"} :
              df[i][k] = IF k \notin DOMAIN models[i] \/ models[i][k] = None
                         THEN Num(0)
                         ELSE models[i][k]
        /\ "private" \notin DOMAIN models[i] => df[i].private = Bool(FALSE)

\* A record with a null count and a negative count was transformed.
C9_Witness ==
    \E i \in 1..Len(df) :
        /\ DOMAIN models[i] = {"downloads", "likes"}
        /\ models[i]["downloads"] = None /\ df[i].downloads = Num(0)
        /\ models[i]["likes"] = Num(-1) /\ df[i].likes = Num(-1)
        /\ df[i].private = Bool(FALSE)

(* C10: the committed table, and the table as the transaction sees it,     *)
(* hold at most one row for a modelId; after a load, the row of each       *)
(* modelId of the batch exists and carries the likes of the batch.         *)
C10_OneRowPerModelId ==
    /\ \A t \in {store, txn} :
          \A s, u \in t.rows : s.modelId = u.modelId => s = u
    /\ pc \in {"close", "done"} =>
          \A i \in 1..Len(df) :
              \E s \in store.rows :
                  s.modelId = df[i].modelId /\ s.likes = df[LastOf(i)].likes

\* A later run has changed the likes of a stored row from 0 to 9.
C10_Witness ==
    /\ pc = "done"
    /\ runs > 1
    /\ \E s \in store0.rows : s.modelId = Str("a/b") /\ s.likes = Num(0)
    /\ \E s \in store.rows : s.modelId = Str("a/b") /\ s.likes = Num(9)
    /\ Cardinality(store.rows) = Cardinality(store0.rows)

=============================================================================
